---- MODULE Spec2Model ----
(***************************************************************************)
(* Greedy atom fitting of generate.py: fit_atoms_to_grids (the outer       *)
(* search), get_next_atom (the candidate generator) and the interface of   *)
(* fit_atoms_by_GD (the fitter the search calls).                          *)
(*                                                                         *)
(* Geometry.  The grid has shape NPoints x 1 x 1 and resolution 1, so the  *)
(* points of get_grid_points lie on a line and a point is its index.       *)
(* Positions of atoms are lattice positions.  Squared distances are kept   *)
(* in units of 1e-4, radii in tenths, densities in hundredths and losses   *)
(* in units of 1e-4, so that every comparison of the code is a comparison  *)
(* of integers.                                                            *)
(*                                                                         *)
(* Specifications.  Spec follows one run of fit_atoms_to_grids.  GnaSpec   *)
(* applies get_next_atom to a grid and an atom set of its own.  CallSpec   *)
(* follows one call of fit_atoms_by_GD, of fit_atoms_by_GMM or of main;    *)
(* FairCallSpec adds that a call that can take a step takes it.            *)
(***************************************************************************)
EXTENDS Integers, Sequences, FiniteSets, TLC

\* ---- bounds of the model ------------------------------------------------
NPoints == 3        \* points of the cloud
MaxDensity == 2     \* densities are 0 .. MaxDensity (times 100)
MaxMass == 2        \* the densities of a grid sum to at most MaxMass (times 100)
MaxAtoms == 4       \* the model stops a search that holds MaxAtoms atoms
MaxLoss == 1        \* losses of a non-empty fit are 0 .. MaxLoss (times 5000)
MaxBonds == 2       \* max_n_bonds of a channel is 0 .. MaxBonds
MaxMove == 1        \* lattice steps the fitter may move an atom
MaxGnaMass == 3     \* density total (times 100) of the grids get_next_atom is called on alone
MaxGnaAtoms == 2    \* atoms of the sets get_next_atom is called on alone
MaxIter == 3        \* max_iter of a fitter call is 0 .. MaxIter
MaxFitAtoms == 1    \* atoms of a fitter call followed on its own
MaxL2 == 3          \* losses and log likelihoods of such a call are 0 .. MaxL2 (times 1e-3)
MaxGrad == 1        \* gradient components are -MaxGrad .. MaxGrad
MaxDim == 26        \* a deconvolved grid is D x D x D for D in 1 .. MaxDim

Channels == {1, 2}
Points == 0 .. NPoints - 1
RadiusVals == {2, 10}
DensityVals == {100 * v : v \in 0 .. MaxDensity}
LossVals == {5000 * l : l \in 0 .. MaxLoss}

\* np.inf (loss_best before the first fit): above every loss of the model
inf == 1000000000
\* xyz_new = None
None == -1
\* np.log(1 + np.sqrt(max_init_bond_E)) and -np.log(1 - np.sqrt(max_init_bond_E))
\* for the default max_init_bond_E = 0.5, in units of 1e-4
LogOnePlusSqrtE == 5348
NegLogOneMinusSqrtE == 12279
\* lr = 0.01 in units of 1e-6 and mo = 0.9 in tenths, the defaults of line 155
lr == 10000
mo == 9
\* the 1e-3 of lines 118 and 212, in units of 1e-3
LossTol == 1
LLTol == 1
\* the shift of np.roll, line 244
roll_shift == 12

VARIABLES
    density, atom_radius, max_n_bonds, greedy, bonded, deconv_fit,  \* arguments
    xyz_init, c, bonds,                  \* the candidate atom set
    xyz, density_pred, loss,             \* what the last fit returned
    xyz_best, c_best, bonds_best, loss_best,
    density_diff,                        \* the residual of lines 345-351
    gna_density,                         \* density argument of the last get_next_atom call
    gna_calls,                           \* calls of get_next_atom so far
    new_atom,                            \* what the last get_next_atom call returned
    pc

args == <<density, atom_radius, max_n_bonds, greedy, bonded, deconv_fit>>
search_vars == <<density, atom_radius, max_n_bonds, greedy, bonded, deconv_fit,
                 xyz_init, c, bonds, xyz, density_pred, loss,
                 xyz_best, c_best, bonds_best, loss_best, density_diff, gna_density,
                 gna_calls, new_atom, pc>>

\* One call of fit_atoms_by_GD, of fit_atoms_by_GMM or of main, followed on
\* its own.
VARIABLES
    gd_xyz_init, gd_max_iter,            \* arguments of fit_atoms_by_GD
    gd_xyz, gd_d_xyz, gd_d_xyz_prev, gd_loss, gd_i,
    velocity,                            \* lr times the velocity of classical momentum
    gd_pc,
    gmm_gof_crit, gmm_noise_model, gmm_xyz_init, gmm_max_iter,  \* arguments of fit_atoms_by_GMM
    gmm_xyz, gmm_ll, gmm_i, gmm_error, gmm_ret, gmm_pc,
    arg_fit_atoms, arg_fit_GMM, arg_noise_model,                \* parsed options of main
    main_pc,
    wd_shape, wd_atom_radius,            \* arguments of wiener_deconv_grid
    h, wd_pc

gd_vars == <<gd_xyz_init, gd_max_iter, gd_xyz, gd_d_xyz, gd_d_xyz_prev, gd_loss, gd_i,
             velocity, gd_pc>>
gmm_vars == <<gmm_gof_crit, gmm_noise_model, gmm_xyz_init, gmm_max_iter,
              gmm_xyz, gmm_ll, gmm_i, gmm_error, gmm_ret, gmm_pc>>
main_vars == <<arg_fit_atoms, arg_fit_GMM, arg_noise_model, main_pc>>
wd_vars == <<wd_shape, wd_atom_radius, h, wd_pc>>
call_vars == <<gd_vars, gmm_vars, main_vars, wd_vars>>

vars == <<search_vars, call_vars>>

\* no call of fit_atoms_by_GD is followed
GDIdle ==
    /\ gd_xyz_init = <<>>
    /\ gd_max_iter = 0
    /\ gd_xyz = <<>>
    /\ gd_d_xyz = <<>>
    /\ gd_d_xyz_prev = <<>>
    /\ gd_loss = inf
    /\ gd_i = 0
    /\ velocity = <<>>
    /\ gd_pc = "idle"

\* no call of fit_atoms_by_GMM is followed
GMMIdle ==
    /\ gmm_gof_crit = "nll"
    /\ gmm_noise_model = ""
    /\ gmm_xyz_init = <<>>
    /\ gmm_max_iter = 0
    /\ gmm_xyz = <<>>
    /\ gmm_ll = - inf
    /\ gmm_i = 0
    /\ gmm_error = ""
    /\ gmm_ret = [returned |-> FALSE, xyz |-> <<>>]
    /\ gmm_pc = "idle"

\* no run of main is followed
MainIdle ==
    /\ arg_fit_atoms = FALSE
    /\ arg_fit_GMM = FALSE
    /\ arg_noise_model = ""
    /\ main_pc = "idle"

\* no call of wiener_deconv_grid is followed
WDIdle ==
    /\ wd_shape = 1
    /\ wd_atom_radius = 2
    /\ h = <<>>
    /\ wd_pc = "idle"

CallIdle == GDIdle /\ GMMIdle /\ MainIdle /\ WDIdle

\* ---- helpers ------------------------------------------------------------
RECURSIVE SumSeq(_)
SumSeq(s) == IF s = <<>> THEN 0 ELSE Head(s) + SumSeq(Tail(s))

RECURSIVE SumOver(_, _)
SumOver(S, f) ==
    IF S = {} THEN 0
    ELSE LET x == CHOOSE y \in S : TRUE IN f[x] + SumOver(S \ {x}, f)

Abs(x) == IF x < 0 THEN -x ELSE x

ZeroGrid == [p \in Points |-> [j \in Channels |-> 0]]

\* np.argmax over the channels: the first index holding the maximum
ArgMax(f) ==
    CHOOSE j \in Channels :
        /\ \A k \in Channels : f[k] <= f[j]
        /\ \A k \in Channels : k < j => f[k] < f[j]

\* ---- get_atom_density (lines 18-30) -------------------------------------
\* squared distance between two lattice positions, in units of 1e-4
dist2(p, q) == (p - q) * (p - q) * 10000

\* integer square root, for the quadratic shoulder of the kernel
ISqrt(n) == CHOOSE k \in 0 .. 100 * (NPoints + MaxMove) : k * k <= n /\ (k + 1) * (k + 1) > n

\* Density (in hundredths) of an atom at atom_pos with radius r (tenths) at
\* point p, for radius_multiple = 1.5: zero beyond 1.5 r, the Gaussian
\* exp(-2 dist^2 / r^2) up to r (1 at the centre, exp(-2) = 0.14 at r),
\* the quadratic exp(-2) (2 dist / r - 3)^2 between.
get_atom_density(atom_pos, r, p) ==
    LET d2 == dist2(p, atom_pos)
        r2 == r * r * 100
        zero_cond == 4 * d2 >= 9 * r2
        gauss_cond == d2 <= r2
        gauss_val == 100 - (86 * d2) \div r2
        quad_val == (14 * (2 * ISqrt(d2) - 30 * r) * (2 * ISqrt(d2) - 30 * r)) \div (r2)
    IN IF zero_cond THEN 0 ELSE IF gauss_cond THEN gauss_val ELSE quad_val

\* density_pred of fit_atoms_by_GD (lines 183-186) at the positions it returns
Render(xyz_, c_, atom_radius_) ==
    [p \in Points |-> [j \in Channels |->
        SumOver({a \in 1 .. Len(xyz_) : c_[a] = j},
                [a \in 1 .. Len(xyz_) |-> get_atom_density(xyz_[a], atom_radius_[j], p)])]]

\* the grids the search is run on
Grids ==
    {g \in [Points -> [Channels -> DensityVals]] :
        SumOver(Points \X Channels, [pj \in Points \X Channels |-> g[pj[1]][pj[2]]])
            <= 100 * MaxMass}

\* L2 of line 188 for the empty atom set: sum(density^2)/2, in units of 1e-4
L2Empty(density_) ==
    SumOver(Points \X Channels,
            [pj \in Points \X Channels |-> (density_[pj[1]][pj[2]] * density_[pj[1]][pj[2]]) \div 2])

\* ---- get_next_atom (lines 372-437) --------------------------------------
\* bond_length2[i,j], line 386, in units of 1e-4
bond_length2(atom_radius_, i, j) == (atom_radius_[i] + atom_radius_[j]) * (atom_radius_[i] + atom_radius_[j]) * 100
\* lines 387-388
min_bond_length2(atom_radius_, i, j) == bond_length2(atom_radius_, i, j) - LogOnePlusSqrtE
max_bond_length2(atom_radius_, i, j) == bond_length2(atom_radius_, i, j) + NegLogOneMinusSqrtE

\* a faulty variant of line 391: the bond count is not looked at
can_bond_any(bonds_, c_, max_n_bonds_, i) == max_n_bonds_[c_[i]] > 0

\* can_bond[i], line 391
can_bond(bonds_, c_, max_n_bonds_, i) == SumSeq(bonds_[i]) < max_n_bonds_[c_[i]]

\* far_enough[i,j], lines 412-420; unbonded: dist2 > atom_radius[c[i]] (tenths -> 1e-4)
far_enough(p, xyz_init_, c_, atom_radius_, bonded_, i, j) ==
    IF bonded_
    THEN dist2(p, xyz_init_[i]) > min_bond_length2(atom_radius_, c_[i], j)
    ELSE dist2(p, xyz_init_[i]) > atom_radius_[c_[i]] * 1000

\* near_enough[i,j], lines 413-421; unbonded: dist2 < inf
near_enough(p, xyz_init_, c_, atom_radius_, bonded_, i, j) ==
    IF bonded_
    THEN dist2(p, xyz_init_[i]) < max_bond_length2(atom_radius_, c_[i], j)
    ELSE TRUE

\* in_range[j], lines 425-426
in_range(p, xyz_init_, c_, atom_radius_, bonded_, bonds_, max_n_bonds_, j) ==
    /\ \A i \in 1 .. Len(xyz_init_) : far_enough(p, xyz_init_, c_, atom_radius_, bonded_, i, j)
    /\ \E i \in 1 .. Len(xyz_init_) :
          /\ near_enough(p, xyz_init_, c_, atom_radius_, bonded_, i, j)
          /\ can_bond(bonds_, c_, max_n_bonds_, i)

\* bonds_new, lines 431-434
new_bonds(p, xyz_init_, c_, atom_radius_, bonded_, bonds_, max_n_bonds_, c_new) ==
    [i \in 1 .. Len(xyz_init_) |->
        IF bonded_
        THEN IF near_enough(p, xyz_init_, c_, atom_radius_, bonded_, i, c_new)
                /\ can_bond(bonds_, c_, max_n_bonds_, i) THEN 1 ELSE 0
        ELSE 0]

NoAtom == [xyz_new |-> None, c_new |-> None, bonds_new |-> <<>>, d_max |-> 0]

\* a faulty variant of lines 396-435: the first point that qualifies is kept
scan_point_first(acc, p, density_, xyz_init_, c_, atom_radius_, bonded_, bonds_, max_n_bonds_) ==
    LET d == density_[p]
        ok == [j \in Channels |->
                  d[j] > 0
                  /\ in_range(p, xyz_init_, c_, atom_radius_, bonded_, bonds_, max_n_bonds_, j)]
        first == ArgMax(d)
        c_new == ArgMax([j \in Channels |-> IF ok[j] THEN d[j] ELSE 0])
    IN IF acc.xyz_new # None \/ ~ \E j \in Channels : d[j] > 0 THEN acc
       ELSE IF Len(xyz_init_) = 0
            THEN [xyz_new |-> p, c_new |-> first, bonds_new |-> <<>>, d_max |-> d[first]]
       ELSE IF \E j \in Channels : ok[j]
            THEN [xyz_new |-> p, c_new |-> c_new,
                  bonds_new |-> new_bonds(p, xyz_init_, c_, atom_radius_, bonded_,
                                          bonds_, max_n_bonds_, c_new),
                  d_max |-> d[c_new]]
       ELSE acc

\* one pass of the loop body of lines 393-435 for point p
scan_point(acc, p, density_, xyz_init_, c_, atom_radius_, bonded_, bonds_, max_n_bonds_) ==
    LET d == density_[p]
        more_density == [j \in Channels |-> d[j] > acc.d_max]
        ok == [j \in Channels |->
                  more_density[j]
                  /\ in_range(p, xyz_init_, c_, atom_radius_, bonded_, bonds_, max_n_bonds_, j)]
        first == ArgMax(d)
        c_new == ArgMax([j \in Channels |-> IF ok[j] THEN d[j] ELSE 0])
    IN IF ~ \E j \in Channels : more_density[j] THEN acc
       ELSE IF Len(xyz_init_) = 0
            THEN [xyz_new |-> p, c_new |-> first, bonds_new |-> <<>>, d_max |-> d[first]]
       ELSE IF \E j \in Channels : ok[j]
            THEN [xyz_new |-> p, c_new |-> c_new,
                  bonds_new |-> new_bonds(p, xyz_init_, c_, atom_radius_, bonded_,
                                          bonds_, max_n_bonds_, c_new),
                  d_max |-> d[c_new]]
       ELSE acc

RECURSIVE scan_from(_, _, _, _, _, _, _, _, _)
scan_from(acc, p, density_, xyz_init_, c_, atom_radius_, bonded_, bonds_, max_n_bonds_) ==
    IF p >= NPoints THEN acc
    ELSE scan_from(scan_point(acc, p, density_, xyz_init_, c_, atom_radius_, bonded_,
                              bonds_, max_n_bonds_),
                   p + 1, density_, xyz_init_, c_, atom_radius_, bonded_, bonds_, max_n_bonds_)

get_next_atom(density_, xyz_init_, c_, atom_radius_, bonded_, bonds_, max_n_bonds_) ==
    scan_from(NoAtom, 0, density_, xyz_init_, c_, atom_radius_, bonded_, bonds_, max_n_bonds_)

\* ---- wiener_deconv_grids (lines 236-263) --------------------------------
\* The deconvolution is a frequency-domain computation on reals; the model
\* keeps it uninterpreted: a grid value carries whether it went through it.
plain(grid) == [wiener |-> FALSE, of |-> grid]
wiener_deconv_grids(grid) == [wiener |-> TRUE, of |-> grid]

\* density - density_pred, line 345
residual(density_, density_pred_) ==
    [p \in Points |-> [j \in Channels |-> density_[p][j] - density_pred_[p][j]]]

\* density_diff after lines 345-351
residual_for_proposal(density_, density_pred_, deconv_fit_) ==
    IF deconv_fit_ THEN wiener_deconv_grids(residual(density_, density_pred_))
    ELSE plain(residual(density_, density_pred_))

\* the density argument of the call of line 355
proposal_density(density_, density_diff_) == plain(density_)

\* ---- fit_atoms_by_GD as fit_atoms_to_grids sees it (lines 154-233) ------
\* Positions the fitter may return: the same number of atoms, moved by at
\* most MaxMove lattice steps in all; with no atom there is nothing to move.
GDPositions(xyz_init_) ==
    {s \in [1 .. Len(xyz_init_) -> Points] :
        SumSeq([i \in 1 .. Len(xyz_init_) |-> Abs(s[i] - xyz_init_[i])]) <= MaxMove}

\* a faulty variant of lines 183-213: the loss of the empty set is not the L2
\* of the target
GDLosses_any(density_, xyz_init_) == LossVals

\* Losses the fitter may return: the L2 of the target alone for the empty
\* set (line 212 breaks at once), any loss of the model otherwise.
GDLosses(density_, xyz_init_) ==
    IF Len(xyz_init_) = 0 THEN {L2Empty(density_)} ELSE LossVals

\* ---- fit_atoms_to_grids (lines 294-369) ---------------------------------
\* faulty variants of the comparison of line 331
worse_or_equal(loss_, loss_best_) == loss_ >= loss_best_
worse_with_slack(loss_, loss_best_) == loss_ > loss_best_ + 5000

\* line 331
worse(loss_, loss_best_) == loss_ > loss_best_

\* faulty variants of lines 360-362: the new column is left out; the new column is
\* all zero; the grown matrix is rebuilt with only the new atom's bonds
add_atom_bonds_row_only(bonds_, bonds_new) == Append(bonds_, bonds_new)
add_atom_bonds_one_sided(bonds_, bonds_new) ==
    LET with_row == Append(bonds_, bonds_new)
    IN [i \in 1 .. Len(with_row) |-> Append(with_row[i], 0)]
add_atom_bonds_rebuilt(bonds_, bonds_new) ==
    LET n == Len(bonds_) + 1
        col == Append(bonds_new, 0)
    IN [i \in 1 .. n |-> [j \in 1 .. n |->
            IF i = n THEN col[j] ELSE IF j = n THEN col[i] ELSE 0]]

\* lines 360-362: bonds_new as a new row, then bonds_new with a 0 as a new column
add_atom_bonds(bonds_, bonds_new) ==
    LET with_row == Append(bonds_, bonds_new)
        col == Append(bonds_new, 0)
    IN [i \in 1 .. Len(with_row) |-> Append(with_row[i], col[i])]

\* a faulty variant of lines 342-343: the start positions are never refreshed
next_init_cold(greedy_, xyz_init_, xyz_best_) == xyz_init_

\* line 343: xyz_init[...] = xyz_best when greedy
next_init(greedy_, xyz_init_, xyz_best_) == IF greedy_ THEN xyz_best_ ELSE xyz_init_

\* line 369: what the search returns when all_iters is off
ret_xyz == xyz
ret_c == c
ret_bonds == bonds
ret_loss == loss_best

Init ==
    /\ CallIdle
    /\ density \in Grids
    /\ atom_radius \in [Channels -> RadiusVals]
    /\ max_n_bonds \in [Channels -> 0 .. MaxBonds]
    /\ greedy \in BOOLEAN
    /\ bonded \in BOOLEAN
    /\ deconv_fit \in BOOLEAN
    /\ xyz_init = <<>>
    /\ c = <<>>
    /\ bonds = <<>>
    /\ loss_best = inf
    /\ xyz = <<>>
    /\ density_pred = ZeroGrid
    /\ loss = inf
    /\ xyz_best = <<>>
    /\ c_best = <<>>
    /\ bonds_best = <<>>
    /\ density_diff = plain(ZeroGrid)
    /\ gna_density = plain(ZeroGrid)
    /\ gna_calls = 0
    /\ new_atom = NoAtom
    /\ pc = "fit"

\* lines 323-325: the fitter runs on the candidate set (of fewer than MaxAtoms
\* atoms: the model follows a search no further)
Fit ==
    /\ pc = "fit"
    /\ Len(c) < MaxAtoms
    /\ \E pos \in GDPositions(xyz_init), l \in GDLosses(density, xyz_init) :
          /\ xyz' = pos
          /\ loss' = l
          /\ density_pred' = Render(pos, c, atom_radius)
    /\ pc' = "evaluate"
    /\ UNCHANGED <<args, xyz_init, c, bonds, xyz_best, c_best, bonds_best, loss_best,
                   density_diff, gna_density, gna_calls, new_atom>>
    /\ UNCHANGED call_vars

\* lines 331-332: the fit got worse
Reject ==
    /\ pc = "evaluate"
    /\ worse(loss, loss_best)
    /\ pc' = "done"
    /\ UNCHANGED <<args, xyz_init, c, bonds, xyz, density_pred, loss,
                   xyz_best, c_best, bonds_best, loss_best, density_diff, gna_density,
                   gna_calls, new_atom>>
    /\ UNCHANGED call_vars

\* lines 333-343: the fit is the new best
Accept ==
    /\ pc = "evaluate"
    /\ ~ worse(loss, loss_best)
    /\ xyz_best' = xyz
    /\ c_best' = c
    /\ bonds_best' = bonds
    /\ loss_best' = loss
    /\ xyz_init' = next_init(greedy, xyz_init, xyz)
    /\ pc' = "expand"
    /\ UNCHANGED <<args, c, bonds, xyz, density_pred, loss, density_diff, gna_density,
                   gna_calls, new_atom>>
    /\ UNCHANGED call_vars

\* lines 345-362: the residual, the call of get_next_atom, the atom it found
AddAtom ==
    /\ pc = "expand"
    /\ Len(c) < MaxAtoms
    /\ density_diff' = residual_for_proposal(density, density_pred, deconv_fit)
    /\ gna_density' = proposal_density(density, density_diff')
    /\ gna_calls' = gna_calls + 1
    /\ new_atom' = get_next_atom(gna_density'.of, xyz_init, c, atom_radius, bonded, bonds,
                                 max_n_bonds)
    /\ new_atom'.xyz_new # None
    /\ xyz_init' = Append(xyz_init, new_atom'.xyz_new)
    /\ c' = Append(c, new_atom'.c_new)
    /\ bonds' = add_atom_bonds(bonds, new_atom'.bonds_new)
    /\ pc' = "fit"
    /\ UNCHANGED <<args, xyz, density_pred, loss, xyz_best, c_best, bonds_best, loss_best>>
    /\ UNCHANGED call_vars

\* lines 345-355, 363-364: the residual, the call of get_next_atom, no candidate
NoCandidate ==
    /\ pc = "expand"
    /\ density_diff' = residual_for_proposal(density, density_pred, deconv_fit)
    /\ gna_density' = proposal_density(density, density_diff')
    /\ gna_calls' = gna_calls + 1
    /\ new_atom' = get_next_atom(gna_density'.of, xyz_init, c, atom_radius, bonded, bonds,
                                 max_n_bonds)
    /\ new_atom'.xyz_new = None
    /\ pc' = "done"
    /\ UNCHANGED <<args, xyz_init, c, bonds, xyz, density_pred, loss,
                   xyz_best, c_best, bonds_best, loss_best>>
    /\ UNCHANGED call_vars

Next == Fit \/ Reject \/ Accept \/ AddAtom \/ NoCandidate

Spec == Init /\ [][Next]_vars

\* ---- get_next_atom called on its own (lines 372-437) --------------------
\* the grids of these calls
GnaGrids ==
    {g \in [Points -> [Channels -> DensityVals]] :
        SumOver(Points \X Channels, [pj \in Points \X Channels |-> g[pj[1]][pj[2]]])
            <= 100 * MaxGnaMass}

\* bond matrices of n atoms: symmetric, zero diagonal
BondMatrices(n) ==
    {b \in [1 .. n -> [1 .. n -> {0, 1}]] :
        \A i, j \in 1 .. n : b[i][j] = b[j][i] /\ b[i][i] = 0}

\* the arguments of a call: a grid, an atom set with its labels and bonds
GnaInit ==
    /\ CallIdle
    /\ density \in GnaGrids
    /\ atom_radius \in [Channels -> RadiusVals]
    /\ max_n_bonds \in [Channels -> 0 .. MaxBonds]
    /\ greedy = FALSE
    /\ bonded \in BOOLEAN
    /\ deconv_fit = FALSE
    /\ \E n \in 1 .. MaxGnaAtoms :
          /\ xyz_init \in [1 .. n -> Points]
          /\ c \in [1 .. n -> Channels]
          /\ bonds \in BondMatrices(n)
    /\ loss_best = 0
    /\ xyz = xyz_init
    /\ density_pred = ZeroGrid
    /\ loss = 0
    /\ xyz_best = xyz_init
    /\ c_best = c
    /\ bonds_best = bonds
    /\ density_diff = plain(ZeroGrid)
    /\ gna_density = plain(ZeroGrid)
    /\ gna_calls = 0
    /\ new_atom = NoAtom
    /\ pc = "expand"

GnaNext == AddAtom \/ NoCandidate

GnaSpec == GnaInit /\ [][GnaNext]_vars

\* ---- fit_atoms_by_GD on its own (lines 154-233) -------------------------
\* One coordinate per atom, in units of 1e-6; losses in units of 1e-3. The
\* loss and the gradient of an iteration depend on the grid, which these
\* calls leave open: each evaluation may give any loss and any gradient.
L2Vals == 0 .. MaxL2
GradVals == - MaxGrad .. MaxGrad
Zeros(n) == [j \in 1 .. n |-> 0]

\* a faulty variant of line 212: max_iter is not looked at
gd_stop_unbounded(n_atoms, delta_loss, i, max_iter) ==
    n_atoms = 0 \/ delta_loss > - LossTol

\* line 212: not n_atoms or delta_loss > -1e-3 or i == max_iter
gd_stop(n_atoms, delta_loss, i, max_iter) ==
    n_atoms = 0 \/ delta_loss > - LossTol \/ i = max_iter

\* line 230: lr*(mo*d_xyz_prev + (1-mo)*d_xyz)
momentum_step(d_xyz_prev, d_xyz) == (lr * (mo * d_xyz_prev + (10 - mo) * d_xyz)) \div 10

\* classical momentum: velocity = mo*velocity + (1-mo)*gradient, times lr
classical_velocity(v, d_xyz) == (mo * v) \div 10 + (lr * (10 - mo) * d_xyz) \div 10

\* lines 164-179
GDInit ==
    /\ \E n \in 0 .. MaxFitAtoms : gd_xyz_init = Zeros(n)
    /\ gd_max_iter \in 0 .. MaxIter
    /\ gd_xyz = gd_xyz_init
    /\ gd_d_xyz = Zeros(Len(gd_xyz_init))
    /\ gd_d_xyz_prev = Zeros(Len(gd_xyz_init))
    /\ gd_loss = inf
    /\ gd_i = 0
    /\ velocity = Zeros(Len(gd_xyz_init))
    /\ gd_pc = "evaluate"

\* lines 183-213: the loss at the current positions, and the test of the loop
GDEvaluate ==
    /\ gd_pc = "evaluate"
    /\ \E l \in L2Vals :
          /\ gd_loss' = l
          /\ gd_pc' = IF gd_stop(Len(gd_xyz), l - gd_loss, gd_i, gd_max_iter)
                      THEN "return" ELSE "descend"
    /\ UNCHANGED <<gd_xyz_init, gd_max_iter, gd_xyz, gd_d_xyz, gd_d_xyz_prev, gd_i, velocity>>
    /\ UNCHANGED <<search_vars, gmm_vars, main_vars, wd_vars>>

\* lines 216-231: the gradient and the update of the positions
GDDescend ==
    /\ gd_pc = "descend"
    /\ gd_d_xyz_prev' = gd_d_xyz
    /\ \E g \in [1 .. Len(gd_xyz) -> GradVals] :
          /\ gd_d_xyz' = g
          /\ gd_xyz' = [j \in 1 .. Len(gd_xyz) |->
                           gd_xyz[j] - momentum_step(gd_d_xyz[j], g[j])]
          /\ velocity' = [j \in 1 .. Len(gd_xyz) |-> classical_velocity(velocity[j], g[j])]
    /\ gd_i' = gd_i + 1
    /\ gd_pc' = "evaluate"
    /\ UNCHANGED <<gd_xyz_init, gd_max_iter, gd_loss>>
    /\ UNCHANGED <<search_vars, gmm_vars, main_vars, wd_vars>>

\* ---- fit_atoms_by_GMM on its own (lines 68-151) -------------------------
\* The identifiers a caller may pass: the three the code knows and one it
\* does not.
GofCrits == {"nll", "aic", "L2", "mse"}
NoiseModels == {"", "d", "p", "g"}

\* a faulty variant of line 94: the noise model is not counted
n_comps_atoms_only(n_atoms, noise_model) == n_atoms

\* line 94: n_atoms + bool(noise_model)
n_comps(n_atoms, noise_model) == n_atoms + (IF noise_model # "" THEN 1 ELSE 0)

\* line 118: ll - ll_prev < 1e-3 or i == max_iter
gmm_stop(delta_ll, i, max_iter) == delta_ll < LLTol \/ i = max_iter

\* the arguments, and lines 79, 100-101
GMMInit ==
    /\ gmm_gof_crit \in GofCrits
    /\ gmm_noise_model \in NoiseModels
    /\ \E n \in 0 .. MaxFitAtoms : gmm_xyz_init = Zeros(n)
    /\ gmm_max_iter \in 0 .. MaxIter
    /\ gmm_xyz = gmm_xyz_init
    /\ gmm_ll = - inf
    /\ gmm_i = 0
    /\ gmm_error = ""
    /\ gmm_ret = [returned |-> FALSE, xyz |-> <<>>]
    /\ gmm_pc = "check"

\* lines 76-95: the three assertions, in their order
GMMCheckArgs ==
    /\ gmm_pc = "check"
    /\ gmm_error' =
          IF gmm_gof_crit \notin {"nll", "aic", "L2"}
          THEN "Invalid value for gof_crit argument"
          ELSE IF gmm_noise_model \notin {"d", "p", ""}
          THEN "Invalid value for noise_model argument"
          ELSE IF ~ (n_comps(Len(gmm_xyz_init), gmm_noise_model) > 0)
          THEN "Need at least one component (atom or noise model) to fit GMM"
          ELSE ""
    /\ gmm_pc' = IF gmm_error' # "" THEN "raised" ELSE "estep"
    /\ UNCHANGED <<gmm_gof_crit, gmm_noise_model, gmm_xyz_init, gmm_max_iter,
                   gmm_xyz, gmm_ll, gmm_i, gmm_ret>>
    /\ UNCHANGED <<search_vars, gd_vars, main_vars, wd_vars>>

\* lines 104-119 and 140-151: the E-step, the log likelihood, the test of the
\* loop, and the return
GMMEStep ==
    /\ gmm_pc = "estep"
    /\ \E ll \in L2Vals :
          /\ gmm_ll' = ll
          /\ IF gmm_stop(ll - gmm_ll, gmm_i, gmm_max_iter)
             THEN /\ gmm_ret' = [returned |-> TRUE, xyz |-> gmm_xyz]
                  /\ gmm_pc' = "returned"
             ELSE /\ gmm_ret' = gmm_ret
                  /\ gmm_pc' = "mstep"
    /\ UNCHANGED <<gmm_gof_crit, gmm_noise_model, gmm_xyz_init, gmm_max_iter,
                   gmm_xyz, gmm_i, gmm_error>>
    /\ UNCHANGED <<search_vars, gd_vars, main_vars, wd_vars>>

\* lines 122-136: the M-step moves the atoms
GMMMStep ==
    /\ gmm_pc = "mstep"
    /\ gmm_xyz' \in [1 .. Len(gmm_xyz) -> 0 .. 1]
    /\ gmm_i' = gmm_i + 1
    /\ gmm_pc' = "estep"
    /\ UNCHANGED <<gmm_gof_crit, gmm_noise_model, gmm_xyz_init, gmm_max_iter,
                   gmm_ll, gmm_error, gmm_ret>>
    /\ UNCHANGED <<search_vars, gd_vars, main_vars, wd_vars>>

\* ---- main (lines 839-977), for one example ------------------------------
\* line 840: the options parse_args returns (798-836); --noise_model takes
\* any string
MainInit ==
    /\ arg_fit_atoms \in BOOLEAN
    /\ arg_fit_GMM \in BOOLEAN
    /\ arg_noise_model \in NoiseModels
    /\ main_pc = "parsed"

\* lines 936-953: --fit_atoms calls fit_atoms_to_grids
MainFitAtoms ==
    /\ main_pc = "parsed"
    /\ arg_fit_atoms
    /\ main_pc' = "fit_atoms_to_grids"
    /\ UNCHANGED <<arg_fit_atoms, arg_fit_GMM, arg_noise_model>>
    /\ UNCHANGED <<search_vars, gd_vars, gmm_vars, wd_vars>>

\* lines 972-977: without --fit_atoms nothing is fitted
MainSkipFit ==
    /\ main_pc = "parsed"
    /\ ~ arg_fit_atoms
    /\ main_pc' = "written"
    /\ UNCHANGED <<arg_fit_atoms, arg_fit_GMM, arg_noise_model>>
    /\ UNCHANGED <<search_vars, gd_vars, gmm_vars, wd_vars>>

\* lines 954-977: the fit is written out
MainWrite ==
    /\ main_pc = "fit_atoms_to_grids"
    /\ main_pc' = "written"
    /\ UNCHANGED <<arg_fit_atoms, arg_fit_GMM, arg_noise_model>>
    /\ UNCHANGED <<search_vars, gd_vars, gmm_vars, wd_vars>>

\* ---- wiener_deconv_grid (lines 236-254), up to the shift of h ------------
\* The grid is D x D x D with one resolution for the three axes, the atom of
\* line 243 is off the centre by resolution/2 on each axis, and np.roll
\* shifts each axis by the same amount: what happens on one axis happens on
\* the three, and h is kept along one axis, through the voxels nearest to
\* the atom on the other two.  Lengths are in units of resolution/2, for a
\* resolution of 1.

\* get_grid_points (lines 273-275): voxel k lies at
\* center + resolution*(k - (D-1)/2)
voxel_coordinate(k, D) == 2 * k - (D - 1)

\* center + resolution/2 of line 243
kernel_atom_coordinate == 1

\* get_atom_density (lines 22-30) at squared distance d2 (units of 1e-4) for
\* radius r (tenths), radius_multiple = 1.5
atom_density_at(d2, r) ==
    LET r2 == r * r * 100
        zero_cond == 4 * d2 >= 9 * r2
        gauss_cond == d2 <= r2
        gauss_val == 100 - (86 * d2) \div r2
        quad_val == (14 * (2 * ISqrt(d2) - 30 * r) * (2 * ISqrt(d2) - 30 * r)) \div (r2)
    IN IF zero_cond THEN 0 ELSE IF gauss_cond THEN gauss_val ELSE quad_val

\* squared distance (units of 1e-4) of the atom to voxel (k, n, n), n the
\* index nearest to the atom
axis_dist2(k, D) ==
    LET a == voxel_coordinate(k, D) - kernel_atom_coordinate
        n == voxel_coordinate(D \div 2, D) - kernel_atom_coordinate
    IN 2500 * (a * a + 2 * n * n)

\* np.roll(h, shift=12) along an axis of length D: entry k moves to (k + 12) mod D
roll(h_, D) == [k \in 0 .. D - 1 |-> h_[(k + roll_shift * (D - 1)) % D]]

\* np.argmax along the axis: the first index holding the maximum
peak_index(h_, D) ==
    CHOOSE k \in 0 .. D - 1 :
        /\ \A m \in 0 .. D - 1 : h_[m] <= h_[k]
        /\ \A m \in 0 .. D - 1 : m < k => h_[m] < h_[k]

\* the arguments
WDInit ==
    /\ wd_shape \in 1 .. MaxDim
    /\ wd_atom_radius \in RadiusVals
    /\ h = <<>>
    /\ wd_pc = "render"

\* lines 242-243: h is the density of one atom at center + resolution/2
WDRender ==
    /\ wd_pc = "render"
    /\ h' = [k \in 0 .. wd_shape - 1 |->
                atom_density_at(axis_dist2(k, wd_shape), wd_atom_radius)]
    /\ wd_pc' = "roll"
    /\ UNCHANGED <<wd_shape, wd_atom_radius>>
    /\ UNCHANGED <<search_vars, gd_vars, gmm_vars, main_vars>>

\* line 244: h = np.roll(h, shift=(12,12,12), axis=(0,1,2))
WDRoll ==
    /\ wd_pc = "roll"
    /\ h' = roll(h, wd_shape)
    /\ wd_pc' = "rolled"
    /\ UNCHANGED <<wd_shape, wd_atom_radius>>
    /\ UNCHANGED <<search_vars, gd_vars, gmm_vars, main_vars>>

\* ---- one call, followed on its own --------------------------------------
\* no search is followed
SearchIdle ==
    /\ density = ZeroGrid
    /\ atom_radius = [j \in Channels |-> 2]
    /\ max_n_bonds = [j \in Channels |-> 0]
    /\ greedy = FALSE
    /\ bonded = FALSE
    /\ deconv_fit = FALSE
    /\ xyz_init = <<>>
    /\ c = <<>>
    /\ bonds = <<>>
    /\ loss_best = inf
    /\ xyz = <<>>
    /\ density_pred = ZeroGrid
    /\ loss = inf
    /\ xyz_best = <<>>
    /\ c_best = <<>>
    /\ bonds_best = <<>>
    /\ density_diff = plain(ZeroGrid)
    /\ gna_density = plain(ZeroGrid)
    /\ gna_calls = 0
    /\ new_atom = NoAtom
    /\ pc = "idle"

CallInit ==
    /\ SearchIdle
    /\ \/ GDInit /\ GMMIdle /\ MainIdle /\ WDIdle
       \/ GDIdle /\ GMMInit /\ MainIdle /\ WDIdle
       \/ GDIdle /\ GMMIdle /\ MainInit /\ WDIdle
       \/ GDIdle /\ GMMIdle /\ MainIdle /\ WDInit

CallNext ==
    \/ GDEvaluate \/ GDDescend
    \/ GMMCheckArgs \/ GMMEStep \/ GMMMStep
    \/ MainFitAtoms \/ MainSkipFit \/ MainWrite
    \/ WDRender \/ WDRoll

CallSpec == CallInit /\ [][CallNext]_vars

\* every call that can take a step takes it
FairCallSpec == CallSpec /\ WF_vars(CallNext)

\* ---- the claims ---------------------------------------------------------
best == <<xyz_best, c_best, bonds_best, loss_best>>

C2_ReturnsBestSet ==
    pc = "done" =>
        (ret_xyz = xyz_best /\ ret_c = c_best /\ ret_bonds = bonds_best
            /\ ret_loss = loss_best)

\* C3: the accepted (best so far) loss never increases from one outer
\* iteration to the next.
C3_AcceptedLossNeverIncreases == [][loss_best' <= loss_best]_vars

\* three fits accepted in a row, the last two of non-empty sets
C3_Witness == pc = "expand" /\ Len(c_best) >= 2 /\ loss_best < L2Empty(density)

\* C4: the number of atoms the search ever adds is at most the number of
\* points of the cloud, in every mode.
C4_AtomsBoundedByPoints == Len(c) <= NPoints

\* C5: the density handed to get_next_atom is the residual computed just
\* before the call: deconvolved when deconv_fit is on, plain when it is off.
C5_ProposalFromResidual == gna_calls > 0 => gna_density = density_diff

\* C6: in bonded mode, when a candidate is returned for a non-empty set, the
\* atoms it is recorded as bonded to are not none, each had fewer bonds than
\* the maximum of its channel, and each lies inside the bond-length window of
\* its channel and the candidate's.
C6_BondSetEligibleAndInWindow ==
    [][(pc = "expand" /\ pc' = "fit" /\ bonded /\ Len(c) >= 1) =>
          LET n == Len(c)
              p == xyz_init'[n + 1]
              cn == c'[n + 1]
          IN /\ \E i \in 1 .. n : bonds'[n + 1][i] = 1
             /\ \A i \in 1 .. n :
                   bonds'[n + 1][i] = 1 =>
                      /\ SumSeq(bonds[i]) < max_n_bonds[c[i]]
                      /\ dist2(p, xyz_init[i]) >= min_bond_length2(atom_radius, c[i], cn)
                      /\ dist2(p, xyz_init[i]) <= max_bond_length2(atom_radius, c[i], cn)]_vars

\* a third atom was added in bonded mode, bonded to an atom that already had a bond
C6_Witness ==
    /\ pc = "fit" /\ bonded /\ Len(c) = 3
    /\ \E i \in 1 .. 2 : bonds[3][i] = 1 /\ SumSeq(bonds[i]) = 2

IsSquare(m, n) == Len(m) = n /\ \A i \in 1 .. Len(m) : Len(m[i]) = n

\* C7: the position array, the channel labels and both dimensions of the
\* bond matrix have the same size at every point of the search, for the
\* candidate set, the best set and the returned set.
C7_ShapesAgree ==
    /\ Len(xyz_init) = Len(c) /\ IsSquare(bonds, Len(c))
    /\ Len(xyz_best) = Len(c_best) /\ IsSquare(bonds_best, Len(c_best))
    /\ pc \in {"evaluate", "expand", "done"} => Len(xyz) = Len(c)
    /\ pc = "done" => (Len(ret_xyz) = Len(ret_c) /\ IsSquare(ret_bonds, Len(ret_c)))

\* atoms were added to the empty set and to a non-empty one, in both modes
C7_Witness == pc = "done" /\ Len(c) >= 2

\* C8: the bond matrix is symmetric with a zero diagonal, and adding an atom
\* grows it by exactly one row and one column.
C8_BondsSymmetric ==
    /\ [](\A i \in 1 .. Len(bonds) : \A j \in 1 .. Len(bonds[i]) :
             /\ j <= Len(bonds) /\ i <= Len(bonds[j])
             /\ bonds[i][j] = bonds[j][i]
             /\ (i = j => bonds[i][j] = 0))
    /\ [][Len(c') # Len(c) =>
             /\ Len(c') = Len(c) + 1
             /\ Len(bonds') = Len(bonds) + 1
             /\ \A i \in 1 .. Len(bonds') : Len(bonds'[i]) = Len(bonds) + 1]_vars

\* a matrix that holds a bond
C8_Witness == Len(c) >= 3 /\ bonds[3][1] = 1 /\ bonds[1][3] = 1

\* C9: adding an atom leaves every entry of the bond matrix and every label
\* that existed before as it was, and a fitter call changes neither the bond
\* matrix nor the labels.
C9_OldEntriesKept ==
    [][/\ Len(c') >= Len(c) /\ Len(bonds') >= Len(bonds)
       /\ \A i \in 1 .. Len(c) : c'[i] = c[i]
       /\ \A i \in 1 .. Len(bonds) : \A j \in 1 .. Len(bonds) : bonds'[i][j] = bonds[i][j]
       /\ pc = "fit" => (bonds' = bonds /\ c' = c)]_vars

\* a bond between the first two atoms is still there after a third was added and fitted
C9_Witness == pc = "evaluate" /\ Len(c) = 3 /\ bonds[1][2] = 1

\* C10: without bonded mode, get_next_atom returns no candidate only when no
\* point has positive density and is farther than the minimum separation
\* from every atom.
C10_NoneOnlyWhenNoPointLeft ==
    (pc = "done" /\ gna_calls > 0 /\ new_atom.xyz_new = None /\ ~ bonded) =>
        ~ \E p \in Points, j \in Channels :
              /\ density[p][j] > 0
              /\ \A i \in 1 .. Len(xyz_init) :
                    far_enough(p, xyz_init, c, atom_radius, bonded, i, j)

\* C11: for a grid that is zero in every voxel of every channel the search
\* returns no positions, no labels, an empty bond matrix and a loss of zero.
C11_ZeroGridGivesEmptySet ==
    (density = ZeroGrid /\ pc = "done") =>
        (ret_xyz = <<>> /\ ret_c = <<>> /\ ret_bonds = <<>> /\ ret_loss = 0)

\* a finished search on the all-zero grid
C11_Witness == density = ZeroGrid /\ pc = "done" /\ gna_calls = 1

\* C12: on an all-zero grid the search finishes without any call of the
\* fitter.
C12_NoFitterCallOnZeroGrid ==
    [][density = ZeroGrid => ~ (pc = "fit" /\ pc' = "evaluate")]_vars

\* the arguments fit_atoms_by_GMM has to refuse
InvalidGMMArgs ==
    \/ gmm_gof_crit \notin {"nll", "aic", "L2"}
    \/ gmm_noise_model \notin {"", "d", "p"}
    \/ (Len(gmm_xyz_init) = 0 /\ gmm_noise_model = "")

\* C13: fit_atoms_by_GMM raises its invalid-argument error exactly when
\* gof_crit or noise_model is not a known identifier or the mixture has no
\* component, and then before any EM iteration and without a return value.
C13_GMMRefusesInvalidArgs ==
    gmm_pc \notin {"idle", "check"} =>
        /\ (gmm_pc = "raised") <=> InvalidGMMArgs
        /\ (gmm_error # "") <=> InvalidGMMArgs
        /\ gmm_pc = "raised" =>
              (gmm_i = 0 /\ gmm_ll = - inf /\ ~ gmm_ret.returned /\ gmm_xyz = gmm_xyz_init)

\* a call with known identifiers refused for having no component
C13_Witness ==
    /\ gmm_pc = "raised"
    /\ gmm_gof_crit = "aic"
    /\ gmm_noise_model = ""
    /\ gmm_error = "Need at least one component (atom or noise model) to fit GMM"

\* C14: a noise model asked for without the GMM fitter is refused before
\* any atom is fitted.
C14_NoiseModelNeedsGMM ==
    (arg_noise_model # "" /\ ~ arg_fit_GMM) => main_pc # "fit_atoms_to_grids"

\* C15: a fitter call takes at most max_iter update steps and then returns;
\* with max_iter = 0, or with no atom in fit_atoms_by_GD, it takes none and
\* returns the initial positions.
C15_UpdatesBoundedByMaxIter ==
    /\ [](gd_i <= gd_max_iter /\ gmm_i <= gmm_max_iter)
    /\ []((gd_pc = "return" /\ (gd_max_iter = 0 \/ Len(gd_xyz_init) = 0)) =>
             (gd_i = 0 /\ gd_xyz = gd_xyz_init))
    /\ []((gmm_pc = "returned" /\ gmm_max_iter = 0) =>
             (gmm_i = 0 /\ gmm_ret.xyz = gmm_xyz_init))
    /\ (gd_pc = "evaluate" ~> gd_pc = "return")
    /\ (gmm_pc = "estep" ~> gmm_pc = "returned")

\* a gradient descent that used up its iterations
C15_Witness == gd_pc = "return" /\ gd_i = gd_max_iter /\ gd_i >= 2

\* C16: within one fit_atoms_by_GD call no evaluation of the loss gives more
\* than the evaluation before it, the last one, whose loss is returned,
\* included.
C16_GDLossNeverIncreases ==
    [][(gd_pc = "evaluate" /\ gd_pc' # "evaluate") => gd_loss' <= gd_loss]_vars

\* points and channels that qualify as the next atom: positive density, far
\* enough from every atom, near enough to some atom that can bond
Qualifies(p, j) ==
    /\ density[p][j] > 0
    /\ in_range(p, xyz_init, c, atom_radius, bonded, bonds, max_n_bonds, j)

\* C17: with at least one atom, the pair returned by get_next_atom qualifies
\* and no qualifying pair has a higher density; in bonded mode its bond set is
\* the set of all atoms in the window that can bond.
C17_GlobalMaximumChosen ==
    [][(pc = "expand" /\ pc' = "fit" /\ Len(c) >= 1) =>
          LET p == new_atom'.xyz_new
              j == new_atom'.c_new
          IN /\ Qualifies(p, j)
             /\ \A q \in Points, k \in Channels :
                   Qualifies(q, k) => density[q][k] <= density[p][j]
             /\ bonded =>
                   \A i \in 1 .. Len(c) :
                       (new_atom'.bonds_new[i] = 1) <=>
                           (/\ near_enough(p, xyz_init, c, atom_radius, bonded, i, j)
                            /\ can_bond(bonds, c, max_n_bonds, i))]_vars

\* the atoms and bonds get_next_atom was called with, seen after the addition
OldAtoms(seq) == SubSeq(seq, 1, Len(seq) - 1)
OldBonds == [i \in 1 .. Len(bonds) - 1 |-> SubSeq(bonds[i], 1, Len(bonds) - 1)]

\* an atom was added to two atoms at a point that is not the first one that
\* qualified: an earlier point qualified with less density
C17_Witness ==
    /\ pc = "fit"
    /\ Len(c) = 3
    /\ \E q \in Points, k \in Channels :
          /\ q < new_atom.xyz_new
          /\ density[q][k] > 0
          /\ density[q][k] < density[new_atom.xyz_new][new_atom.c_new]
          /\ in_range(q, OldAtoms(xyz_init), OldAtoms(c), atom_radius, bonded,
                      OldBonds, max_n_bonds, k)

\* C18: in bonded mode every atom's bond count is at most the maximum bond
\* count of its channel, the newly added atom included.
C18_ValenceRespected ==
    bonded => \A i \in 1 .. Len(c) : SumSeq(bonds[i]) <= max_n_bonds[c[i]]

\* C20: after an accepted fit the next fit starts the accepted atoms from
\* their accepted positions when greedy and from their candidate points
\* otherwise, the new atom from the point get_next_atom returned, and the
\* accepted positions are left as they were.
C20_NextStart ==
    [][/\ (pc = "fit" /\ pc' = "evaluate") => xyz_init' = xyz_init
       /\ (pc = "evaluate" /\ pc' = "expand") =>
             /\ xyz_best' = xyz
             /\ xyz_init' = IF greedy THEN xyz ELSE xyz_init
       /\ (pc = "expand" /\ pc' = "fit") =>
             /\ xyz_init' = Append(xyz_init, new_atom'.xyz_new)
             /\ xyz_best' = xyz_best
             /\ greedy => SubSeq(xyz_init', 1, Len(xyz_best)) = xyz_best]_vars

\* a greedy search about to fit two atoms, the first one moved off its
\* candidate point by the accepted fit
C20_Witness ==
    /\ greedy
    /\ pc = "fit"
    /\ Len(xyz_init) = 2
    /\ xyz_init[1] = xyz_best[1]
    /\ density[xyz_init[1]][c[1]] = 0

\* C19: every position update of fit_atoms_by_GD is the step of classical
\* momentum, lr times the velocity accumulated over all earlier gradients.
C19_ClassicalMomentum ==
    [][(gd_pc = "descend" /\ gd_pc' = "evaluate") =>
          \A j \in 1 .. Len(gd_xyz) : gd_xyz[j] - gd_xyz'[j] = velocity'[j]]_vars

\* C21: for every dimension D of the grid, the shift of wiener_deconv_grid
\* leaves the peak of h, the voxel the atom was rendered at, at index 0.
C21_PeakRolledToOrigin ==
    (wd_pc = "rolled" /\ \E k \in 0 .. wd_shape - 1 : h[k] > 0) =>
        peak_index(h, wd_shape) = 0

====
